---- MODULE Spec2Model ----
(***************************************************************************)
(* Model of src/database/schema_analyzer.py : analyze_schema().            *)
(*                                                                         *)
(* Python strings are sequences of one-character strings, so that          *)
(* str.split('.'), string concatenation and sorted() are computed and not  *)
(* assumed.  Python's None is the value None below, which is no string.    *)
(* A dict is a record [order, val]: val is the mapping and order the keys  *)
(* in insertion order, which is the order in which Python iterates a dict. *)
(***************************************************************************)
EXTENDS Integers, Sequences, FiniteSets, TLC

VARIABLES schema_file, disk, now, pc, schema_data, idx, organized_schema,
          timestamp, written, exit_status, error, run, prev, prevWritten

vars == <<schema_file, disk, now, pc, schema_data, idx, organized_schema,
          timestamp, written, exit_status, error, run, prev, prevWritten>>

(* ---------------------------- bounds ----------------------------------- *)
MaxLen == 3
MaxRuns == 2

(* ------------------------- values and strings -------------------------- *)
None == <<"None">>

PRIMARY_KEY == <<"P","R","I","M","A","R","Y"," ","K","E","Y">>
FOREIGN_KEY == <<"F","O","R","E","I","G","N"," ","K","E","Y">>
UNIQUE == <<"U","N","I","Q","U","E">>
NULL == <<"N","U","L","L">>
NOT_NULL == <<"N","O","T"," ","N","U","L","L">>

Fields == {"schema", "table", "column", "data_type", "nullable",
           "constraint_type", "references_table"}

SUMMARY == "schema_summary.md"
RELATIONS == "schema_relations.md"
STATS == "schema_stats.json"
Files == {SUMMARY, RELATIONS, STATS}

\* code point of a character; exact for the characters of schema and table
\* names, which are the strings that sorted() compares
Ord(c) == CASE c = " " -> 32 [] c = "." -> 46 [] c = "_" -> 95
            [] c = "a" -> 97 [] c = "b" -> 98 [] c = "c" -> 99
            [] OTHER -> 120

\* Python's x < y on strings: lexicographic on code points
RECURSIVE StrLess(_, _)
StrLess(x, y) ==
    IF y = <<>> THEN FALSE
    ELSE IF x = <<>> THEN TRUE
    ELSE IF Ord(Head(x)) < Ord(Head(y)) THEN TRUE
    ELSE IF Ord(Head(x)) > Ord(Head(y)) THEN FALSE
    ELSE StrLess(Tail(x), Tail(y))

RECURSIVE Insert(_, _)
Insert(x, s) ==
    IF s = <<>> THEN <<x>>
    ELSE IF StrLess(x, Head(s)) THEN <<x>> \o s
    ELSE <<Head(s)>> \o Insert(x, Tail(s))

\* sorted(d.keys())
RECURSIVE sorted(_)
sorted(s) == IF s = <<>> THEN <<>> ELSE Insert(Head(s), sorted(Tail(s)))

\* str.split('.'): the pieces between the dots, empty pieces included
RECURSIVE SplitFrom(_, _)
SplitFrom(s, cur) ==
    IF s = <<>> THEN <<cur>>
    ELSE IF Head(s) = "." THEN <<cur>> \o SplitFrom(Tail(s), <<>>)
    ELSE SplitFrom(Tail(s), Append(cur, Head(s)))

split(s) == SplitFrom(s, <<>>)

\* truth value of a string or None in an if
Truthy(x) == x # None /\ x # <<>>

\* only a string has the method split; None.split raises AttributeError
HasSplit(x) == x # None

RECURSIVE Flatten(_)
Flatten(ss) == IF ss = <<>> THEN <<>> ELSE Head(ss) \o Flatten(Tail(ss))

RECURSIVE SumSeq(_)
SumSeq(s) == IF s = <<>> THEN 0 ELSE Head(s) + SumSeq(Tail(s))

(* ------------------- the defaultdict of defaultdicts ------------------- *)
EmptyDict == [order |-> <<>>, val |-> <<>>]

\* the value the inner default factory builds
NewTable == [columns |-> <<>>, primary_key |-> None,
             foreign_keys |-> <<>>, unique_constraints |-> <<>>]

HasKey(d, k) == \E i \in 1..Len(d.order) : d.order[i] = k

\* d[k] = v
SetKey(d, k, v) ==
    IF HasKey(d, k)
    THEN [order |-> d.order, val |-> [d.val EXCEPT ![CHOOSE i \in 1..Len(d.order) : d.order[i] = k] = v]]
    ELSE [order |-> Append(d.order, k), val |-> Append(d.val, v)]

GetKey(d, k) == d.val[CHOOSE i \in 1..Len(d.order) : d.order[i] = k]

\* organized_schema[schema][table] read through the defaultdicts: a missing
\* schema or table is created by the read
Touch(os, s, t) ==
    LET os1 == IF HasKey(os, s) THEN os ELSE SetKey(os, s, EmptyDict)
        inner == GetKey(os1, s)
        inner1 == IF HasKey(inner, t) THEN inner ELSE SetKey(inner, t, NewTable)
    IN SetKey(os1, s, inner1)

TableData(os, s, t) == GetKey(GetKey(os, s), t)

SetTable(os, s, t, td) == SetKey(os, s, SetKey(GetKey(os, s), t, td))

\* organized_schema[s][t] read for each of the pairs in turn; the map after
\* each read is bound as a value before the next read is applied to it
RECURSIVE TouchAll(_, _)
TouchAll(os, pairs) ==
    IF pairs = <<>> THEN os
    ELSE CHOOSE r \in {TouchAll(os1, Tail(pairs)) :
                          os1 \in {Touch(os, Head(pairs)[1], Head(pairs)[2])}} : TRUE

(* --------------------------- aggregation ------------------------------- *)
\* a first-write-wins variant: the key is set only while it is None
SetPrimaryKeyIfUnset(td, column) ==
    IF td.primary_key = None THEN [td EXCEPT !.primary_key = column] ELSE td

\* organized_schema[schema][table]['primary_key'] = column
SetPrimaryKey(td, column) == [td EXCEPT !.primary_key = column]

\* one pass of the loop body for a record that has every field
AddItem(os, item) ==
    LET schema == item.schema
        table == item.table
        column == item.column
        constraint_type == item.constraint_type
        os1 == Touch(os, schema, table)
        td0 == TableData(os1, schema, table)
        td1 == [td0 EXCEPT !.columns = Append(@, [name |-> column,
                                                  type |-> item.data_type,
                                                  nullable |-> (item.nullable = NULL)])]
        td2 == IF constraint_type = PRIMARY_KEY
               THEN SetPrimaryKey(td1, column)
               ELSE IF constraint_type = FOREIGN_KEY
               THEN [td1 EXCEPT !.foreign_keys =
                        Append(@, [column |-> column, references |-> item.references_table])]
               ELSE IF constraint_type = UNIQUE
               THEN [td1 EXCEPT !.unique_constraints = Append(@, column)]
               ELSE td1
    IN SetTable(os1, schema, table, td2)

\* a variant that reads the optional field with item.get('references_table')
LacksRequiredField(item) == \E f \in Fields \ {"references_table"} : f \notin DOMAIN item

\* item[f] raises KeyError for a field the record does not have
LacksField(item) == \E f \in Fields : f \notin DOMAIN item

(* ----------------------------- rendering ------------------------------- *)
\* the keys of each level in sorted order, as (schema, table) pairs
SortedPairs(os) ==
    LET ss == sorted(os.order)
    IN Flatten([i \in 1..Len(ss) |->
                  LET ts == sorted(GetKey(os, ss[i]).order)
                  IN [j \in 1..Len(ts) |-> <<ss[i], ts[j]>>]])

\* the keys of each level in insertion order (list(d.keys()))
InsertionPairs(os) ==
    Flatten([i \in 1..Len(os.order) |->
               LET ts == GetKey(os, os.order[i]).order
               IN [j \in 1..Len(ts) |-> <<os.order[i], ts[j]>>]])

\* what an f-string puts for a value
Format(x) == IF x = None THEN <<"N","o","n","e">> ELSE x

\* sep.join(parts)
RECURSIVE Join(_, _)
Join(parts, sep) ==
    IF parts = <<>> THEN <<>>
    ELSE IF Len(parts) = 1 THEN parts[1]
    ELSE parts[1] \o sep \o Join(Tail(parts), sep)

\* the generator of line 111 yields something: fk_constraint is not None
HasFK(foreign_keys, name) == \E i \in 1..Len(foreign_keys) : foreign_keys[i].column = name

\* a variant that keeps the last matching foreign key
LastFK(foreign_keys, name) ==
    IF HasFK(foreign_keys, name)
    THEN foreign_keys[CHOOSE i \in 1..Len(foreign_keys) :
                        /\ foreign_keys[i].column = name
                        /\ \A j \in (i+1)..Len(foreign_keys) : foreign_keys[j].column # name]
    ELSE None

\* next((fk for fk in foreign_keys if fk['column'] == name), None)
FirstFK(foreign_keys, name) ==
    IF HasFK(foreign_keys, name)
    THEN foreign_keys[CHOOSE i \in 1..Len(foreign_keys) :
                        /\ foreign_keys[i].column = name
                        /\ \A j \in 1..(i-1) : foreign_keys[j].column # name]
    ELSE None

FKLabel(fk) == <<"F","K"," ","→"," ">> \o Format(fk.references)

\* the Restricciones cell of one column row
Constraints(col, table_data) ==
    LET fk_constraint == FirstFK(table_data.foreign_keys, col.name)
    IN Join((IF col.name = table_data.primary_key THEN <<PRIMARY_KEY>> ELSE <<>>)
            \o (IF \E i \in 1..Len(table_data.unique_constraints) :
                      table_data.unique_constraints[i] = col.name
                THEN <<UNIQUE>> ELSE <<>>)
            \o (IF HasFK(table_data.foreign_keys, col.name)
                THEN <<FKLabel(fk_constraint)>> ELSE <<>>),
            <<",", " ">>)

SummaryRow(col, table_data) ==
    <<"row", col.name, col.type, IF col.nullable THEN "Sí" ELSE "No",
      Constraints(col, table_data)>>

SummaryTable(os, s, t) ==
    LET table_data == TableData(os, s, t)
    IN <<<<"Tabla", t>>>>
       \o [k \in 1..Len(table_data.columns) |-> SummaryRow(table_data.columns[k], table_data)]

\* the markdown summary below its timestamp line
SummaryBody(os) ==
    LET ss == sorted(os.order)
    IN Flatten([i \in 1..Len(ss) |->
                  LET ts == sorted(GetKey(os, ss[i]).order)
                  IN <<<<"Esquema", ss[i]>>, <<"Contiene", Len(ts)>>>>
                     \o Flatten([j \in 1..Len(ts) |-> SummaryTable(os, ss[i], ts[j])])])

EntityName(s, t) == s \o <<"_">> \o t

Entity(os, s, t) ==
    LET td == TableData(os, s, t)
    IN <<<<"entity", EntityName(s, t)>>>>
       \o [k \in 1..Len(td.columns) |->
             <<"col", td.columns[k].type, td.columns[k].name,
               IF td.columns[k].name = td.primary_key THEN "PK" ELSE "">>]

\* a variant that accepts two or more segments and uses the first two
RelLineTwoOrMore(s, t, fk) ==
    IF Truthy(fk.references)
    THEN LET ref_parts == split(fk.references)
         IN IF Len(ref_parts) >= 2
            THEN <<<<"rel", EntityName(s, t), EntityName(ref_parts[1], ref_parts[2]), fk.column>>>>
            ELSE <<>>
    ELSE <<>>

\* the relationship line of one foreign key, or nothing
RelLine(s, t, fk) ==
    IF Truthy(fk.references)
    THEN LET ref_parts == split(fk.references)
         IN IF Len(ref_parts) = 2
            THEN <<<<"rel", EntityName(s, t), EntityName(ref_parts[1], ref_parts[2]), fk.column>>>>
            ELSE <<>>
    ELSE <<>>

RelLines(os) ==
    LET ps == SortedPairs(os)
    IN Flatten([i \in 1..Len(ps) |->
                  LET fks == TableData(os, ps[i][1], ps[i][2]).foreign_keys
                  IN Flatten([k \in 1..Len(fks) |-> RelLine(ps[i][1], ps[i][2], fks[k])])])

\* the relationship view below its timestamp line
RelationsBody(os) ==
    LET ps == SortedPairs(os)
    IN Flatten([i \in 1..Len(ps) |-> Entity(os, ps[i][1], ps[i][2])]) \o RelLines(os)

\* fk['references'].split('.') is reached with a value that has no split
RelationsRaises(os) ==
    LET ps == SortedPairs(os)
    IN \E i \in 1..Len(ps) :
         LET fks == TableData(os, ps[i][1], ps[i][2]).foreign_keys
         IN \E k \in 1..Len(fks) :
              Truthy(fks[k].references) /\ ~HasSplit(fks[k].references)

\* a variant that also looks the referenced table up in the map
RelationsReadsWithTargets(os) ==
    LET ps == SortedPairs(os)
    IN ps \o Flatten([i \in 1..Len(ps) |->
                LET fks == TableData(os, ps[i][1], ps[i][2]).foreign_keys
                IN Flatten([k \in 1..Len(fks) |->
                      IF Truthy(fks[k].references) /\ Len(split(fks[k].references)) = 2
                      THEN <<<<split(fks[k].references)[1], split(fks[k].references)[2]>>>>
                      ELSE <<>>])])

\* the (schema, table) entries the relationship rendering reads
RelationsReads(os) == SortedPairs(os) \o SortedPairs(os)

TableStats(os, s, t) ==
    LET table_data == TableData(os, s, t)
    IN [name |-> t,
        columns |-> Len(table_data.columns),
        has_primary_key |-> (table_data.primary_key # None),
        foreign_keys |-> Len(table_data.foreign_keys),
        unique_constraints |-> Len(table_data.unique_constraints)]

\* stats["schema_details"][schema] for the schemas in the given order
SchemaDetails(os, schemas) ==
    [i \in 1..Len(schemas) |->
       LET tables == GetKey(os, schemas[i]).order
       IN [schema |-> schemas[i],
           tables |-> Len(tables),
           table_details |-> [j \in 1..Len(tables) |-> TableStats(os, schemas[i], tables[j])]]]

\* a variant with total_tables = len(tables) in place of +=
TotalTablesAssigned(os, schemas) ==
    IF schemas = <<>> THEN 0 ELSE Len(GetKey(os, schemas[Len(schemas)]).order)

\* total_tables of the first statistics loop
TotalTables(os, schemas) ==
    SumSeq([i \in 1..Len(schemas) |-> Len(GetKey(os, schemas[i]).order)])

\* total_columns of the first statistics loop
TotalColumns(os, schemas) ==
    SumSeq([i \in 1..Len(schemas) |->
              LET tables == GetKey(os, schemas[i]).order
              IN SumSeq([j \in 1..Len(tables) |->
                           Len(TableData(os, schemas[i], tables[j]).columns)])])

\* the stats dict without its timestamp
StatsBody(os, schemas) ==
    <<[schemas |-> Len(schemas),
       tables |-> TotalTables(os, schemas),
       columns |-> TotalColumns(os, schemas),
       schema_details |-> SchemaDetails(os, schemas)]>>

(* ------------------------------ inputs --------------------------------- *)
A == <<"a">>
B == <<"b">>
INT == <<"i","n","t">>
REF_AB == <<"a",".","b">>
REF_BA == <<"b",".","a">>

Rec(s, t, c, n, ct, ref) ==
    [schema |-> s, table |-> t, column |-> c, data_type |-> INT,
     nullable |-> n, constraint_type |-> ct, references_table |-> ref]

\* the record without one of its fields
Drop(item, f) == [g \in (DOMAIN item) \ {f} |-> item[g]]

\* several schemas and tables, every constraint type
RecsTables ==
    {Rec(p[1], p[2], A, NOT_NULL, ct[1], ct[2]) :
        p \in {<<A, A>>, <<B, B>>, <<B, A>>},
        ct \in {<<PRIMARY_KEY, None>>, <<FOREIGN_KEY, REF_AB>>, <<UNIQUE, None>>, <<None, None>>}}

\* one table, two columns, every constraint type, two foreign key targets
RecsColumns ==
    {Rec(A, A, c, NOT_NULL, ct[1], ct[2]) :
        c \in {A, B},
        ct \in {<<PRIMARY_KEY, None>>, <<FOREIGN_KEY, REF_AB>>, <<FOREIGN_KEY, REF_BA>>,
                <<UNIQUE, None>>, <<None, None>>}}

\* the values of references_table: null, empty, one, two, three segments,
\* and segments that are empty
Refs == {None, <<>>, A, REF_AB, <<"a",".","b",".","c">>, <<".">>, <<"a",".">>}

RecsRefs ==
    {Rec(A, A, A, NULL, FOREIGN_KEY, ref) : ref \in Refs}
    \cup {Rec(A, B, B, NULL, None, REF_AB)}

GoodRecs == {Rec(A, A, A, NOT_NULL, PRIMARY_KEY, None), Rec(A, B, B, NULL, FOREIGN_KEY, REF_AB)}

\* records that lack one of the fields, among records that have them all
RecsFaulty == GoodRecs \cup {Drop(Rec(A, A, B, NULL, UNIQUE, None), f) : f \in Fields}

RecsEnding == GoodRecs \cup {Drop(Rec(A, A, B, NULL, UNIQUE, None), "table")}

RecsRerun ==
    {Rec(s, A, A, NOT_NULL, ct[1], ct[2]) :
        s \in {A, B},
        ct \in {<<PRIMARY_KEY, None>>, <<FOREIGN_KEY, REF_AB>>, <<None, None>>}}

InputsOver(R) == UNION {[1..n -> R] : n \in 0..MaxLen}

(* ------------------------------- files --------------------------------- *)
Absent == [state |-> "absent", timestamp |-> 0, body |-> <<>>]
Old == [state |-> "old", timestamp |-> 0, body |-> <<>>]
Truncated == [state |-> "truncated", timestamp |-> 0, body |-> <<>>]
Content(ts, body) == [state |-> "written", timestamp |-> ts, body |-> body]

NoFiles == [f \in Files |-> Absent]
OldFiles == [f \in Files |-> Old]

JsonFile(kind, data) == [exists |-> TRUE, kind |-> kind, data |-> data]
MissingFile == [exists |-> FALSE, kind |-> "none", data |-> <<>>]

\* the process before its first statement
Fresh ==
    /\ pc = "start"
    /\ schema_data = <<>>
    /\ idx = 1
    /\ organized_schema = EmptyDict
    /\ timestamp = 0
    /\ written = {}
    /\ exit_status = <<>>
    /\ error = "none"

Init ==
    /\ Fresh
    /\ now = 1
    /\ run = 1
    /\ prev = NoFiles
    /\ prevWritten = {}
    /\ \/ /\ \E data \in InputsOver(RecsTables) \cup InputsOver(RecsColumns)
                          \cup InputsOver(RecsRefs) :
                schema_file = JsonFile("pure", data)
          /\ disk = NoFiles
       \/ /\ \E data \in InputsOver(RecsFaulty), kind \in {"pure", "embedded"} :
                schema_file = JsonFile(kind, data)
          /\ disk \in {NoFiles, OldFiles}
       \/ /\ schema_file \in {MissingFile, JsonFile("garbage", <<>>),
                              JsonFile("embedded_bad", <<>>)}
          /\ disk \in {NoFiles, OldFiles}

\* every way a run can end, on short inputs
InitFair ==
    /\ Fresh
    /\ now = 1
    /\ run = 1
    /\ prev = NoFiles
    /\ prevWritten = {}
    /\ \/ \E data \in InputsOver(RecsEnding), kind \in {"pure", "embedded"} :
             schema_file = JsonFile(kind, data)
       \/ schema_file \in {MissingFile, JsonFile("garbage", <<>>),
                           JsonFile("embedded_bad", <<>>)}
    /\ disk = NoFiles

InitRerun ==
    /\ Fresh
    /\ now = 1
    /\ run = 1
    /\ prev = NoFiles
    /\ prevWritten = {}
    /\ \E data \in InputsOver(RecsRerun) : schema_file = JsonFile("pure", data)
    /\ disk = NoFiles

(* ------------------------------ actions -------------------------------- *)
\* a variant whose handler reports the error and returns
FailWithoutExit(e) ==
    /\ pc' = "done"
    /\ exit_status' = <<0>>
    /\ error' = e

\* sys.exit(1), from the missing-file branch or from the except handler
Fail(e) ==
    /\ pc' = "done"
    /\ exit_status' = <<1>>
    /\ error' = e

\* lines 17-45: find the file, read it, parse it
Load ==
    /\ pc = "start"
    /\ IF ~schema_file.exists
       THEN Fail("MissingInputFile") /\ UNCHANGED <<schema_data, idx>>
       ELSE IF schema_file.kind = "pure" \/ schema_file.kind = "embedded"
       THEN /\ schema_data' = schema_file.data
            /\ idx' = 1
            /\ pc' = "aggregate"
            /\ UNCHANGED <<exit_status, error>>
       ELSE IF schema_file.kind = "embedded_bad"
       THEN Fail("JSONDecodeError") /\ UNCHANGED <<schema_data, idx>>
       ELSE Fail("ValueError") /\ UNCHANGED <<schema_data, idx>>
    /\ UNCHANGED <<schema_file, disk, now, organized_schema, timestamp, written,
                   run, prev, prevWritten>>

\* lines 56-81: one iteration of the loop over the records
Aggregate ==
    /\ pc = "aggregate"
    /\ idx <= Len(schema_data)
    /\ IF LacksField(schema_data[idx])
       THEN Fail("KeyError") /\ UNCHANGED <<organized_schema, idx>>
       ELSE /\ organized_schema' = AddItem(organized_schema, schema_data[idx])
            /\ idx' = idx + 1
            /\ UNCHANGED <<pc, exit_status, error>>
    /\ UNCHANGED <<schema_file, disk, now, schema_data, timestamp, written,
                   run, prev, prevWritten>>

\* a variant that removes the files of the run when a write is refused
WriteFileOrCleanUp(f, text, nextpc, status) ==
    \E ok \in BOOLEAN :
       IF ok
       THEN /\ disk' = [disk EXCEPT ![f] = text]
            /\ written' = written \cup {f}
            /\ pc' = nextpc
            /\ exit_status' = status
            /\ UNCHANGED error
       ELSE /\ disk' = [g \in Files |-> IF g \in written \cup {f} THEN Absent ELSE disk[g]]
            /\ Fail("OSError")
            /\ UNCHANGED written

\* with open(path, 'w') as file: file.write(text), which the file system may
\* refuse; a refused write leaves the file as it was or truncated
WriteFile(f, text, nextpc, status) ==
    \E ok \in BOOLEAN :
       IF ok
       THEN /\ disk' = [disk EXCEPT ![f] = text]
            /\ written' = written \cup {f}
            /\ pc' = nextpc
            /\ exit_status' = status
            /\ UNCHANGED error
       ELSE /\ \E left \in {disk[f], Truncated} : disk' = [disk EXCEPT ![f] = left]
            /\ Fail("OSError")
            /\ UNCHANGED written

\* lines 85-124: render the markdown summary and write it
WriteSummary ==
    /\ pc = "aggregate"
    /\ idx > Len(schema_data)
    /\ timestamp' = now
    /\ organized_schema' = TouchAll(organized_schema, SortedPairs(organized_schema))
    /\ WriteFile(SUMMARY, Content(now, SummaryBody(organized_schema)), "relations", exit_status)
    /\ UNCHANGED <<schema_file, now, schema_data, idx, run, prev, prevWritten>>

\* lines 130-158: render the relationship view and write it
WriteRelations ==
    /\ pc = "relations"
    /\ organized_schema' = TouchAll(organized_schema, RelationsReads(organized_schema))
    /\ IF RelationsRaises(organized_schema)
       THEN Fail("AttributeError") /\ UNCHANGED <<disk, written>>
       ELSE WriteFile(RELATIONS, Content(timestamp, RelationsBody(organized_schema)),
                      "stats", exit_status)
    /\ UNCHANGED <<schema_file, now, schema_data, idx, timestamp, run, prev, prevWritten>>

MapSchemas(os) == {os.order[i] : i \in 1..Len(os.order)}

\* lines 164-212: compute the statistics, write them, and return
StatsStep(schemas) ==
    /\ pc = "stats"
    /\ organized_schema' = TouchAll(organized_schema, InsertionPairs(organized_schema)
                                                      \o InsertionPairs(organized_schema))
    /\ WriteFile(STATS, Content(timestamp, StatsBody(organized_schema, schemas)), "done", <<0>>)
    /\ UNCHANGED <<schema_file, now, schema_data, idx, timestamp, run, prev, prevWritten>>

\* a variant that walks the schemas in an arbitrary order, as over a set
WriteStatsAnyOrder ==
    \E schemas \in {q \in [1..Len(organized_schema.order) -> MapSchemas(organized_schema)] :
                       \A i, j \in 1..Len(q) : i # j => q[i] # q[j]} :
       StatsStep(schemas)

\* schemas = list(organized_schema.keys())
WriteStats == StatsStep(organized_schema.order)

\* the script is run again on the same input file, in the same second or later
Rerun ==
    /\ pc = "done"
    /\ run < MaxRuns
    /\ run' = run + 1
    /\ prev' = disk
    /\ prevWritten' = written
    /\ now' \in {now, now + 1}
    /\ pc' = "start"
    /\ schema_data' = <<>>
    /\ idx' = 1
    /\ organized_schema' = EmptyDict
    /\ timestamp' = 0
    /\ written' = {}
    /\ exit_status' = <<>>
    /\ error' = "none"
    /\ UNCHANGED <<schema_file, disk>>

Next == Load \/ Aggregate \/ WriteSummary \/ WriteRelations \/ WriteStats

Spec == Init /\ [][Next]_vars

NextRerun == Load \/ Aggregate \/ WriteSummary \/ WriteRelations \/ WriteStats \/ Rerun

SpecRerun == InitRerun /\ [][NextRerun]_vars

(* ---------------------- vocabulary of the properties ------------------- *)
\* the records of the input file and those the loop has consumed so far
input == schema_file.data
Consumed == 1..(idx - 1)

\* the consumed records of one table
RowsOf(s, t) == {i \in Consumed : input[i].schema = s /\ input[i].table = t}
RowsWith(s, t, ct) == {i \in RowsOf(s, t) : input[i].constraint_type = ct}

\* the (schema, table) pairs that have an entry in the map
MapPairs(os) ==
    UNION {{<<os.order[i], GetKey(os, os.order[i]).order[j]>> :
               j \in 1..Len(GetKey(os, os.order[i]).order)} : i \in 1..Len(os.order)}

NoDup(seq) == \A i, j \in 1..Len(seq) : i # j => seq[i] # seq[j]

Max(S) == CHOOSE x \in S : \A y \in S : y <= x
Min(S) == CHOOSE x \in S : \A y \in S : x <= y

Succeeded == pc = "done" /\ exit_status = <<0>>

(* ------------------------------- C1 ------------------------------------ *)
\* C1: in every state of the aggregation and in the final map, a column name
\* occurs at most once in the column sequence of a table; a repeated
\* (schema, table, column) row adds constraint flags only.
C1_ColumnOncePerTable ==
    \A p \in MapPairs(organized_schema) :
       NoDup([k \in 1..Len(TableData(organized_schema, p[1], p[2]).columns) |->
                TableData(organized_schema, p[1], p[2]).columns[k].name])

(* ------------------------------- C2 ------------------------------------ *)
\* C2: the map holds exactly the (schema, table) pairs of the records read so
\* far (all of the input once the loop is over), each as one entry, and the
\* rendering and statistics steps that read the map add none.
C2_PairsExactlyThoseOfInput ==
    /\ MapPairs(organized_schema) = {<<input[i].schema, input[i].table>> : i \in Consumed}
    /\ NoDup(organized_schema.order)
    /\ \A i \in 1..Len(organized_schema.order) :
          NoDup(GetKey(organized_schema, organized_schema.order[i]).order)
    /\ pc \in {"relations", "stats"} \/ Succeeded => idx = Len(input) + 1

C2_Witness ==
    /\ Succeeded
    /\ Len(input) = 3
    /\ Cardinality(MapPairs(organized_schema)) = 2
    /\ \E i \in 1..Len(input) : input[i].constraint_type = FOREIGN_KEY

(* ------------------------------- C3 ------------------------------------ *)
\* C3: for every table, the primary key is the column of the last PRIMARY KEY
\* record of that table in input order; it is absent when the table has no
\* such record; records of another constraint type leave it alone.
C3_PrimaryKeyLastWriteWins ==
    \A p \in MapPairs(organized_schema) :
       LET pks == RowsWith(p[1], p[2], PRIMARY_KEY)
           pk == TableData(organized_schema, p[1], p[2]).primary_key
       IN IF pks = {} THEN pk = None ELSE pk = input[Max(pks)].column

C3_Witness ==
    /\ Succeeded
    /\ \E i, j, k \in 1..Len(input) :
          /\ i < j /\ j < k
          /\ input[i].constraint_type = PRIMARY_KEY
          /\ input[j].constraint_type = PRIMARY_KEY
          /\ input[i].column # input[j].column
          /\ input[k].constraint_type = UNIQUE
          /\ input[k].column = input[i].column
          /\ TableData(organized_schema, input[i].schema, input[i].table).primary_key
                = input[j].column

(* ------------------------------- C4 ------------------------------------ *)
\* C4: in the statistics file the totals are the sums of the details:
\* schemas is the number of schema_details entries, tables the sum of the
\* per-schema table counts (each the length of its table_details), columns
\* the sum of the per-table column counts; per table, has_primary_key says
\* whether the table has a primary key, and foreign_keys and
\* unique_constraints count the table's foreign key and unique entries.
C4_StatsTotalsAreSums ==
    STATS \in written =>
       LET st == disk[STATS].body[1]
           sd == st.schema_details
       IN /\ st.schemas = Len(sd)
          /\ st.tables = SumSeq([i \in 1..Len(sd) |-> sd[i].tables])
          /\ \A i \in 1..Len(sd) : sd[i].tables = Len(sd[i].table_details)
          /\ st.columns = SumSeq([i \in 1..Len(sd) |->
                              SumSeq([j \in 1..Len(sd[i].table_details) |->
                                         sd[i].table_details[j].columns])])
          /\ \A i \in 1..Len(sd) : \A j \in 1..Len(sd[i].table_details) :
                LET d == sd[i].table_details[j]
                IN /\ d.has_primary_key <=> RowsWith(sd[i].schema, d.name, PRIMARY_KEY) # {}
                   /\ d.foreign_keys = Cardinality(RowsWith(sd[i].schema, d.name, FOREIGN_KEY))
                   /\ d.unique_constraints = Cardinality(RowsWith(sd[i].schema, d.name, UNIQUE))

C4_Witness ==
    /\ Succeeded
    /\ LET st == disk[STATS].body[1]
       IN /\ st.schemas = 2
          /\ st.tables = 3
          /\ st.columns = 3
          /\ \E i \in 1..2 : \E j \in 1..Len(st.schema_details[i].table_details) :
                st.schema_details[i].table_details[j].has_primary_key

(* ------------------------------- C5 ------------------------------------ *)
Count(seq, x) == Cardinality({k \in 1..Len(seq) : seq[k] = x})

DotCount(str) == Cardinality({k \in 1..Len(str) : str[k] = "."})

\* exactly two dot-separated parts: a string with exactly one dot
TwoParts(ref) == ref # None /\ DotCount(ref) = 1

FKRecords == {i \in 1..Len(input) : input[i].constraint_type = FOREIGN_KEY}

\* the relationship line of a FOREIGN KEY record whose reference has two parts
LineFor(i) ==
    <<"rel", input[i].schema \o <<"_">> \o input[i].table,
      [k \in 1..Len(input[i].references_table) |->
          IF input[i].references_table[k] = "." THEN "_" ELSE input[i].references_table[k]],
      input[i].column>>

RelsOf(body) == SelectSeq(body, LAMBDA l : l[1] = "rel")

\* every record has every field and the file is there and parses
ValidInput ==
    /\ schema_file.exists
    /\ schema_file.kind \in {"pure", "embedded"}
    /\ \A i \in 1..Len(input) : Fields \subseteq DOMAIN input[i]

\* C5: the relationship view has a line for a FOREIGN KEY record exactly when
\* its references_table has exactly two dot-separated parts; every other
\* value gives no line and raises nothing: a run on valid input can only be
\* stopped by a refused write, and otherwise writes the three files and
\* exits with status 0.
C5_RelationLinesIffTwoParts ==
    /\ RELATIONS \in written =>
          LET rels == RelsOf(disk[RELATIONS].body)
          IN /\ \A i \in FKRecords :
                   TwoParts(input[i].references_table) => Count(rels, LineFor(i)) > 0
             /\ \A k \in 1..Len(rels) :
                   Count(rels, rels[k]) =
                      Cardinality({i \in FKRecords : /\ TwoParts(input[i].references_table)
                                                     /\ LineFor(i) = rels[k]})
    /\ ValidInput => error \in {"none", "OSError"}
    /\ ValidInput /\ pc = "done" /\ error = "none" => exit_status = <<0>> /\ written = Files

C5_Witness ==
    /\ Succeeded
    /\ Len(RelsOf(disk[RELATIONS].body)) = 1
    /\ \E i, j, k \in FKRecords :
          /\ input[i].references_table = None
          /\ input[j].references_table = REF_AB
          /\ DotCount(input[k].references_table) = 2

(* ------------------------------- C6 ------------------------------------ *)
C6_ExitStatus ==
    /\ pc = "done" <=> exit_status \in {<<0>>, <<1>>}
    /\ pc # "done" => exit_status = <<>>
    /\ exit_status = <<0>> <=> pc = "done" /\ ValidInput /\ written = Files /\ error = "none"
    /\ exit_status = <<1>> <=> pc = "done" /\ error # "none"
    /\ pc = "done" /\ ~schema_file.exists => exit_status = <<1>>

\* the interpreter keeps executing the script
SpecFair == InitFair /\ [][Next]_vars /\ WF_vars(Next)

\* C6: every run ends, with status 0 or 1: 0 exactly when the input file
\* exists, parses, aggregates and the three files are written, 1 when the
\* file is missing or an exception was raised; never another status, never
\* status 0 after an exception.
C6_TerminatesWithZeroOrOne == []C6_ExitStatus /\ <>(pc = "done")

C6_Witness ==
    /\ pc = "done"
    /\ exit_status = <<1>>
    /\ error = "OSError"
    /\ written = {SUMMARY, RELATIONS}

(* ------------------------------- C8 ------------------------------------ *)
HasFaultyRecord ==
    /\ schema_file.exists
    /\ schema_file.kind \in {"pure", "embedded"}
    /\ \E i \in 1..Len(input) : ~(Fields \subseteq DOMAIN input[i])

\* C8: when a record of the input lacks a required field, the run exits with
\* status 1 and no output file is written or modified, wherever the record is.
C8_FaultyRecordFailsBeforeAnyWrite ==
    HasFaultyRecord =>
       /\ written = {}
       /\ disk \in {NoFiles, OldFiles}
       /\ pc = "done" => exit_status = <<1>> /\ error = "KeyError"
       /\ pc \notin {"relations", "stats"}

C8_Witness ==
    /\ pc = "done"
    /\ exit_status = <<1>>
    /\ error = "KeyError"
    /\ idx = 3
    /\ Len(input) = 3
    /\ "references_table" \notin DOMAIN input[3]
    /\ disk = OldFiles

(* ------------------------------- C10 ----------------------------------- *)
C10_PrefixOfOrder ==
    /\ STATS \in written => RELATIONS \in written
    /\ RELATIONS \in written => SUMMARY \in written
    /\ written # {} => pc \notin {"start", "aggregate"} /\ idx = Len(input) + 1
    /\ \A f \in written : disk[f].state = "written"
    /\ exit_status = <<0>> => written = Files

C10_WrittenStays ==
    \A f \in written : f \in written' /\ disk'[f] = disk[f]

\* C10: the files are written in the order summary, relationship view,
\* statistics, each after the aggregation is over: the files written by the
\* run are always a prefix of that order, a written file is not rewritten or
\* removed afterwards, also not by a failure, and status 0 means all three.
C10_FilesWrittenInOrder == []C10_PrefixOfOrder /\ [][C10_WrittenStays]_vars

C10_Witness ==
    /\ pc = "done"
    /\ exit_status = <<1>>
    /\ written = {SUMMARY, RELATIONS}
    /\ disk[STATS].state = "truncated"
    /\ Len(input) = 3

(* ------------------------------- C9 ------------------------------------ *)
\* the schema and the table a line of the summary stands under
SchemaAt(body, k) == body[Max({j \in 1..k : body[j][1] = "Esquema"})][2]
TableAt(body, k) == body[Max({j \in 1..k : body[j][1] = "Tabla"})][2]

COMMA == <<",", " ">>

\* the label cell the input prescribes for column c of table (s, t)
ExpectedCell(s, t, c) ==
    LET pks == RowsWith(s, t, PRIMARY_KEY)
        isPK == pks # {} /\ input[Max(pks)].column = c
        isUQ == \E i \in RowsWith(s, t, UNIQUE) : input[i].column = c
        fks == {i \in RowsWith(s, t, FOREIGN_KEY) : input[i].column = c}
        target == input[Min(fks)].references_table
        fk == <<"F","K"," ","→"," ">>
                 \o (IF target = None THEN <<"N","o","n","e">> ELSE target)
    IN IF fks = {}
       THEN IF isPK /\ isUQ THEN PRIMARY_KEY \o COMMA \o UNIQUE
            ELSE IF isPK THEN PRIMARY_KEY
            ELSE IF isUQ THEN UNIQUE
            ELSE <<>>
       ELSE IF isPK /\ isUQ THEN PRIMARY_KEY \o COMMA \o UNIQUE \o COMMA \o fk
            ELSE IF isPK THEN PRIMARY_KEY \o COMMA \o fk
            ELSE IF isUQ THEN UNIQUE \o COMMA \o fk
            ELSE fk

\* C9: in the summary the schemas come in sorted order and the tables in
\* sorted order within their schema, and the label cell of every column row
\* is PRIMARY KEY (the column is the table's final primary key), UNIQUE (the
\* column is among the unique names) and FK -> target (target of the first
\* foreign key on the column in input order), those that apply, in this
\* order, joined by ', '; it is empty when none applies.
C9_SummarySortedAndLabelled ==
    SUMMARY \in written =>
       LET body == disk[SUMMARY].body
           K == 1..Len(body)
       IN /\ \A k, l \in K :
                k < l /\ body[k][1] = "Esquema" /\ body[l][1] = "Esquema"
                   => StrLess(body[k][2], body[l][2])
          /\ \A k, l \in K :
                /\ k < l /\ body[k][1] = "Tabla" /\ body[l][1] = "Tabla"
                /\ SchemaAt(body, k) = SchemaAt(body, l)
                => StrLess(body[k][2], body[l][2])
          /\ \A k \in K :
                body[k][1] = "row"
                   => body[k][5] = ExpectedCell(SchemaAt(body, k), TableAt(body, k), body[k][2])

C9_Witness ==
    /\ Succeeded
    /\ \E i, j, k \in 1..Len(input) :
          /\ i < j
          /\ input[i].constraint_type = FOREIGN_KEY
          /\ input[j].constraint_type = FOREIGN_KEY
          /\ input[k].constraint_type = PRIMARY_KEY
          /\ input[i].column = input[j].column
          /\ input[i].column = input[k].column
          /\ input[i].references_table # input[j].references_table
          /\ \E l \in 1..Len(disk[SUMMARY].body) :
                /\ disk[SUMMARY].body[l][1] = "row"
                /\ disk[SUMMARY].body[l][5] =
                      PRIMARY_KEY \o COMMA \o <<"F","K"," ","→"," ">> \o input[i].references_table

====
